---- MODULE Spec2Model ----
(***************************************************************************)
(* A model of redisclient.py: the RESP codec (encode / decode) and the     *)
(* AsyncRedisClient pipeline session that reassembles replies from an      *)
(* IOStream and dispatches them to queued callbacks.                       *)
(*                                                                         *)
(* A byte string is a sequence of one-byte tokens; the two bytes of the    *)
(* line terminator are the tokens "CR" and "LF".                           *)
(***************************************************************************)
EXTENDS Integers, Sequences, FiniteSets, TLC

\* ------------------------------------------------------------------ bounds

\* fetch calls that succeed in one behaviour
MaxFetch == 2
\* reply frames the server may send beyond one per written command
MaxUnsolicited == 1
\* fields of a command passed to encode on its own
MaxFields == 3
\* elements of a multi-bulk reply passed to decode on its own
MaxElements == 4

\* ------------------------------------------------------------- byte strings

CRLF == <<"CR", "LF">>

Digits == <<"0", "1", "2", "3", "4", "5", "6", "7", "8", "9">>

IsDigit(c) == \E i \in 1..10 : Digits[i] = c

DigitVal(c) == (CHOOSE i \in 1..10 : Digits[i] = c) - 1

IsSpace(c) == c \in {"CR", "LF", " "}

Min(a, b) == IF a < b THEN a ELSE b

\* '%d' % n
RECURSIVE NatToBytes(_)
NatToBytes(n) ==
    IF n < 10 THEN <<Digits[n + 1]>>
    ELSE NatToBytes(n \div 10) \o <<Digits[(n % 10) + 1]>>

FormatInt(n) == IF n < 0 THEN <<"-">> \o NatToBytes(-n) ELSE NatToBytes(n)

\* str.rstrip() / str.lstrip(): whitespace removed at one end
RECURSIVE rstrip(_)
rstrip(s) ==
    IF s # <<>> /\ IsSpace(s[Len(s)]) THEN rstrip(SubSeq(s, 1, Len(s) - 1)) ELSE s

RECURSIVE lstrip(_)
lstrip(s) == IF s # <<>> /\ IsSpace(s[1]) THEN lstrip(Tail(s)) ELSE s

RECURSIVE DigitsToNat(_)
DigitsToNat(s) ==
    IF s = <<>> THEN 0
    ELSE 10 * DigitsToNat(SubSeq(s, 1, Len(s) - 1)) + DigitVal(s[Len(s)])

\* int(s): surrounding whitespace is ignored, one sign is allowed, the rest
\* must be decimal digits; anything else raises ValueError (ok = FALSE).
int(s) ==
    LET t    == rstrip(lstrip(s))
        neg  == t # <<>> /\ t[1] = "-"
        body == IF t # <<>> /\ t[1] \in {"-", "+"} THEN Tail(t) ELSE t
    IN  IF body # <<>> /\ \A k \in 1..Len(body) : IsDigit(body[k])
        THEN [ok |-> TRUE, i |-> IF neg THEN 0 - DigitsToNat(body) ELSE DigitsToNat(body)]
        ELSE [ok |-> FALSE, i |-> 0]

\* cStringIO.read(n) at position pos (1-based): at most n bytes, all the
\* rest when n is negative.
read(data, pos, n) ==
    IF n < 0 THEN SubSeq(data, pos, Len(data))
    ELSE SubSeq(data, pos, Min(pos + n - 1, Len(data)))

\* cStringIO.readline() at position pos: through the next "LF", or the rest.
readline(data, pos) ==
    LET ends == {k \in pos..Len(data) : data[k] = "LF"}
    IN  IF ends = {} THEN SubSeq(data, pos, Len(data))
        ELSE SubSeq(data, pos, CHOOSE k \in ends : \A m \in ends : k <= m)

\* s[:-2]
DropLast2(s) == SubSeq(s, 1, Len(s) - 2)

\* ---------------------------------------------------------------- the codec

\* Python values as tagged records.
PyTrue == [t |-> "True"]
PyNone == [t |-> "None"]
PyInt(n) == [t |-> "int", i |-> n]
PyStr(s) == [t |-> "str", s |-> s]
PyList(l) == [t |-> "list", l |-> l]
\* Raised exceptions, as the outcome of a call.
RedisError(d) == [t |-> "RedisError", data |-> d]
ValueError == [t |-> "ValueError"]
AssertionError == [t |-> "AssertionError"]
\* `while number:` with a negative count never ends.
Hang == [t |-> "hang"]

IsException(v) == v.t \in {"RedisError", "ValueError", "AssertionError", "hang"}

\* A request is a Python value: a tuple of fields or something else (a list,
\* a string); a field is a str (its bytes) or an int.
FieldText(x) == IF x.t = "int" THEN FormatInt(x.i) ELSE x.s

\* encode_fields with a length line that counts an int field as one byte
RECURSIVE encode_fields_len_of_value(_)
encode_fields_len_of_value(fields) ==
    IF fields = <<>> THEN <<>>
    ELSE LET x == Head(fields)
             length == IF x.t = "int" THEN 1 ELSE Len(x.s)
         IN  <<"$">> \o FormatInt(length) \o CRLF \o FieldText(x) \o CRLF
             \o encode_fields_len_of_value(Tail(fields))

RECURSIVE encode_fields(_)
encode_fields(fields) ==
    IF fields = <<>> THEN <<>>
    ELSE LET x == Head(fields)
         IN  <<"$">> \o FormatInt(Len(FieldText(x))) \o CRLF \o FieldText(x) \o CRLF
             \o encode_fields(Tail(fields))

\* encode with a second assertion, that the tuple has a field.
encode_rejects_empty(request) ==
    IF ~request.tuple \/ request.fields = <<>> THEN AssertionError
    ELSE PyStr(<<"*">> \o FormatInt(Len(request.fields)) \o CRLF
               \o encode_fields(request.fields))

\* encode(request): the wire bytes, or the AssertionError of line 30.
encode(request) ==
    IF ~request.tuple THEN AssertionError
    ELSE PyStr(<<"*">> \o FormatInt(Len(request.fields)) \o CRLF
               \o encode_fields(request.fields))

\* The element loop of decode (lines 60-74): number elements left to read at
\* position pos, result so far.
RECURSIVE decode_elements(_, _, _, _)
decode_elements(data, pos, number, result) ==
    IF number = 0 THEN PyList(result)
    ELSE IF number < 0 THEN Hang
    ELSE
      LET c == read(data, pos, 1)
          p1 == pos + Len(c)
          line == readline(data, p1)
          p2 == p1 + Len(line)
          n == int(line)
      IN  IF c = <<"$">> THEN
            IF ~n.ok THEN ValueError
            ELSE LET element == read(data, p2, n.i)
                     p3 == p2 + Len(element)
                     p4 == p3 + Len(read(data, p3, 2))
                 IN  decode_elements(data, p4, number - 1, Append(result, PyStr(element)))
          ELSE IF c = <<":">> THEN
            IF ~n.ok THEN ValueError
            ELSE decode_elements(data, p2, number - 1, Append(result, PyInt(n.i)))
          ELSE decode_elements(data, p2, number - 1, Append(result, PyStr(DropLast2(line))))

\* decode that returns None for a first byte it does not know.
decode_unknown_is_none(data) ==
    LET c == read(data, 1, 1)
        line == readline(data, 2)
        n == int(line)
        p2 == 2 + Len(line)
    IN  IF c = <<"+">> THEN PyTrue
        ELSE IF c = <<"-">> THEN RedisError(rstrip(line))
        ELSE IF c = <<":">> THEN (IF n.ok THEN PyInt(n.i) ELSE ValueError)
        ELSE IF c = <<"$">> THEN
            IF ~n.ok THEN ValueError
            ELSE IF n.i = -1 THEN PyNone
            ELSE PyStr(read(data, p2, n.i))
        ELSE IF c = <<"*">> THEN
            IF ~n.ok THEN ValueError
            ELSE IF n.i = -1 THEN PyNone
            ELSE decode_elements(data, p2, n.i, <<>>)
        ELSE PyNone

\* decode(data): the value of one reply frame, or the exception raised.
decode(data) ==
    LET c == read(data, 1, 1)
        line == readline(data, 2)
        n == int(line)
        p2 == 2 + Len(line)
    IN  IF c = <<"+">> THEN PyTrue
        ELSE IF c = <<"-">> THEN RedisError(rstrip(line))
        ELSE IF c = <<":">> THEN (IF n.ok THEN PyInt(n.i) ELSE ValueError)
        ELSE IF c = <<"$">> THEN
            IF ~n.ok THEN ValueError
            ELSE IF n.i = -1 THEN PyNone
            ELSE PyStr(read(data, p2, n.i))
        ELSE IF c = <<"*">> THEN
            IF ~n.ok THEN ValueError
            ELSE IF n.i = -1 THEN PyNone
            ELSE decode_elements(data, p2, n.i, <<>>)
        ELSE RedisError(<<"Redis Reply TypeError">>)

\* -------------------------------------------------------------- the session

VARIABLES
    _callback_queue,    \* AsyncRedisClient._callback_queue: callbacks awaiting a reply
    _callback,          \* AsyncRedisClient._callback: the callback of the last fetch
    _result_queue,      \* AsyncRedisClient._result_queue
    _data,              \* AsyncRedisClient._data: bytes of the reply being reassembled
    _multibulk_number,  \* AsyncRedisClient._multibulk_number: elements still to read
    reading,            \* the stream's outstanding read requests, oldest first
    written,            \* the byte strings handed to stream.write, in order
    read_buffer,        \* bytes the stream has received and not yet delivered
    connected,          \* the connect callback has run
    closed,             \* stream.close() was called
    wire,               \* bytes the server has sent that have not yet arrived
    sent,               \* the reply frames the server has sent, in order
    dispatched,         \* history: one entry per _maybe_callback call
    raised,             \* the exception that left the last call into the client, or "none"
    call,               \* a call of encode or decode made from outside the client
    returned            \* what that call returned or raised

vars == <<_callback_queue, _callback, _result_queue, _data, _multibulk_number,
          reading, written, read_buffer, connected, closed, wire, sent,
          dispatched, raised, call, returned>>

\* No callback (Python None); callbacks are named by the fetch that passes
\* them: the k-th successful fetch passes callback k.
None == 0

\* No call of the codec from outside the client, and a call still running.
NoCall == [fn |-> "none"]
NotReturned == [t |-> "running"]

\* The part of the state the client's methods read and write, as one record.
Self ==
    [callback_queue |-> _callback_queue, callback |-> _callback,
     result_queue |-> _result_queue, data |-> _data,
     multibulk_number |-> _multibulk_number, reading |-> reading,
     written |-> written, dispatched |-> dispatched, exc |-> "none"]

\* stream.read_until('\r\n', cb) and stream.read_bytes(n, cb)
read_until(s, cb) ==
    [s EXCEPT !.reading = Append(@, [kind |-> "until", n |-> 0, cb |-> cb])]

read_bytes(s, n, cb) ==
    [s EXCEPT !.reading = Append(@, [kind |-> "bytes", n |-> n, cb |-> cb])]

_wait_result(s) == read_until(s, "_on_read_first_line")

\* The requests a caller passes to fetch.
PingRequest == [tuple |-> TRUE, fields |-> <<PyStr(<<"P">>)>>]
Requests ==
    { PingRequest,
      [tuple |-> TRUE, fields |-> <<PyStr(<<"L">>), PyInt(12)>>],
      [tuple |-> TRUE, fields |-> <<>>],
      [tuple |-> FALSE, fields |-> <<PyStr(<<"P">>)>>] }

\* fetch that registers the callback before it encodes the request.
fetch_registers_first(s, request, callback) ==
    LET data == encode(request)
        s1 == [s EXCEPT !.callback = callback, !.callback_queue = Append(@, callback)]
    IN  IF IsException(data) THEN [s1 EXCEPT !.exc = data.t]
        ELSE [s1 EXCEPT !.written = Append(@, data.s)]

\* fetch that puts the callback at the head of the queue (appendleft).
fetch_appendleft(s, request, callback) ==
    LET data == encode(request)
    IN  IF IsException(data) THEN [s EXCEPT !.exc = data.t]
        ELSE [s EXCEPT !.written = Append(@, data.s),
                       !.callback = callback,
                       !.callback_queue = <<callback>> \o @]

\* fetch that also asks the stream for the reply's first line.
fetch_waits_result(s, request, callback) ==
    LET data == encode(request)
    IN  IF IsException(data) THEN [s EXCEPT !.exc = data.t]
        ELSE _wait_result([s EXCEPT !.written = Append(@, data.s),
                                    !.callback = callback,
                                    !.callback_queue = Append(@, callback)])

fetch(s, request, callback) ==
    LET data == encode(request)
    IN  IF IsException(data) THEN [s EXCEPT !.exc = data.t]
        ELSE [s EXCEPT !.written = Append(@, data.s),
                       !.callback = callback,
                       !.callback_queue = Append(@, callback)]

\* What a callback does when invoked: return, raise, or call fetch again.
Behaviours == {"return", "raise", "fetch"}

\* callback(result), line 156
invoke(s, callback, result, popped, beh) ==
    LET entry == [cb |-> callback, popped |-> popped, result |-> result]
    IN  IF callback = None
        THEN [s EXCEPT !.exc = "TypeError",
                       !.dispatched = Append(@, entry @@ [invoked |-> FALSE])]
        ELSE LET s1 == [s EXCEPT !.dispatched = Append(@, entry @@ [invoked |-> TRUE])]
             IN  IF beh = "raise" THEN [s1 EXCEPT !.exc = "CallbackError"]
                 ELSE IF beh = "fetch" THEN fetch(s1, PingRequest, Len(s1.written) + 1)
                 ELSE s1

\* _maybe_callback without its finally clause: the read is re-issued only
\* when nothing raised.
_maybe_callback_no_finally(s, data, beh) ==
    LET popped   == s.callback_queue # <<>>
        callback == IF popped THEN Head(s.callback_queue) ELSE s.callback
        s1       == [s EXCEPT !.callback_queue = IF popped THEN Tail(@) ELSE @]
        result   == decode(data)
        entry    == [cb |-> callback, popped |-> popped, result |-> result,
                     invoked |-> FALSE]
        s2       == IF IsException(result)
                    THEN [s1 EXCEPT !.exc = result.t, !.dispatched = Append(@, entry)]
                    ELSE invoke(s1, callback, result, popped, beh)
    IN  IF s2.exc = "none" THEN _wait_result(s2) ELSE s2

\* _maybe_callback that reads the head of the queue and leaves it there.
_maybe_callback_no_popleft(s, data, beh) ==
    LET popped   == s.callback_queue # <<>>
        callback == IF popped THEN Head(s.callback_queue) ELSE s.callback
        result   == decode(data)
        entry    == [cb |-> callback, popped |-> popped, result |-> result,
                     invoked |-> FALSE]
    IN  IF IsException(result)
        THEN _wait_result([s EXCEPT !.exc = result.t, !.dispatched = Append(@, entry)])
        ELSE _wait_result(invoke(s, callback, result, popped, beh))

\* _maybe_callback that keeps a reply in the result queue when no callback
\* awaits one.
_maybe_callback_keeps_reply(s, data, beh) ==
    LET queued   == s.result_queue # <<>>
        rq       == IF queued THEN Append(s.result_queue, data) ELSE s.result_queue
        data1    == IF queued THEN Head(rq) ELSE data
        popped   == s.callback_queue # <<>>
        callback == IF popped THEN Head(s.callback_queue) ELSE s.callback
        s1       == [s EXCEPT !.result_queue = IF queued THEN Tail(rq) ELSE rq,
                              !.callback_queue = IF popped THEN Tail(@) ELSE @]
        result   == decode(data1)
        entry    == [cb |-> callback, popped |-> popped, result |-> result,
                     invoked |-> FALSE]
    IN  IF ~popped
        THEN _wait_result([s EXCEPT !.result_queue = Append(@, data)])
        ELSE IF result = Hang
        THEN [s1 EXCEPT !.exc = "hang", !.dispatched = Append(@, entry)]
        ELSE IF IsException(result)
        THEN _wait_result([s1 EXCEPT !.exc = result.t,
                                     !.dispatched = Append(@, entry)])
        ELSE _wait_result(invoke(s1, callback, result, popped, beh))

_maybe_callback(s, data, beh) ==
    LET queued   == s.result_queue # <<>>
        rq       == IF queued THEN Append(s.result_queue, data) ELSE s.result_queue
        data1    == IF queued THEN Head(rq) ELSE data
        popped   == s.callback_queue # <<>>
        callback == IF popped THEN Head(s.callback_queue) ELSE s.callback
        s1       == [s EXCEPT !.result_queue = IF queued THEN Tail(rq) ELSE rq,
                              !.callback_queue = IF popped THEN Tail(@) ELSE @]
        result   == decode(data1)
        entry    == [cb |-> callback, popped |-> popped, result |-> result,
                     invoked |-> FALSE]
    IN  IF result = Hang
        THEN [s1 EXCEPT !.exc = "hang", !.dispatched = Append(@, entry)]
        ELSE IF IsException(result)
        THEN _wait_result([s1 EXCEPT !.exc = result.t,
                                     !.dispatched = Append(@, entry)])
        ELSE _wait_result(invoke(s1, callback, result, popped, beh))

\* _on_read_first_line with an else branch that hands the line to
\* _maybe_callback.
_on_read_first_line_else_dispatch(s, data, beh) ==
    LET s0 == [s EXCEPT !.data = data]
        c  == data[1]
        n  == int(Tail(data))
    IN  IF c \in {"+", "-", ":"} THEN _maybe_callback(s0, s0.data, beh)
        ELSE IF c = "$" THEN
            IF SubSeq(data, 1, Min(3, Len(data))) = <<"$", "-", "1">>
            THEN _maybe_callback(s0, s0.data, beh)
            ELSE IF ~n.ok THEN [s0 EXCEPT !.exc = "ValueError"]
            ELSE read_bytes(s0, n.i + 2, "_on_read_bulk_line")
        ELSE IF c = "*" THEN
            IF data[2] \in {"-", "0"} THEN _maybe_callback(s0, s0.data, beh)
            ELSE IF ~n.ok THEN [s0 EXCEPT !.exc = "ValueError"]
            ELSE read_until([s0 EXCEPT !.multibulk_number = n.i],
                            "_on_read_multibulk_linehead")
        ELSE _maybe_callback(s0, s0.data, beh)

_on_read_first_line(s, data, beh) ==
    LET s0 == [s EXCEPT !.data = data]
        c  == data[1]
        n  == int(Tail(data))
    IN  IF c \in {"+", "-", ":"} THEN _maybe_callback(s0, s0.data, beh)
        ELSE IF c = "$" THEN
            IF SubSeq(data, 1, Min(3, Len(data))) = <<"$", "-", "1">>
            THEN _maybe_callback(s0, s0.data, beh)
            ELSE IF ~n.ok THEN [s0 EXCEPT !.exc = "ValueError"]
            ELSE read_bytes(s0, n.i + 2, "_on_read_bulk_line")
        ELSE IF c = "*" THEN
            IF data[2] \in {"-", "0"} THEN _maybe_callback(s0, s0.data, beh)
            ELSE IF ~n.ok THEN [s0 EXCEPT !.exc = "ValueError"]
            ELSE read_until([s0 EXCEPT !.multibulk_number = n.i],
                            "_on_read_multibulk_linehead")
        ELSE s0

_on_read_bulk_line(s, data, beh) ==
    LET s0 == [s EXCEPT !.data = @ \o data]
    IN  _maybe_callback(s0, s0.data, beh)

_on_read_multibulk_linehead(s, data, beh) ==
    LET s0 == [s EXCEPT !.data = @ \o data]
        c  == data[1]
        n  == int(Tail(data))
    IN  IF c = "$" THEN
            IF ~n.ok THEN [s0 EXCEPT !.exc = "ValueError"]
            ELSE read_bytes(s0, n.i + 2, "_on_read_multibulk_linebody")
        ELSE _maybe_callback(s0, s0.data, beh)

_on_read_multibulk_linebody(s, data, beh) ==
    LET s0 == [s EXCEPT !.data = @ \o data, !.multibulk_number = @ - 1]
    IN  IF s0.multibulk_number # 0
        THEN read_until(s0, "_on_read_multibulk_linehead")
        ELSE _maybe_callback(s0, s0.data, beh)

\* The stream calls the callback its read request named.
handle(s, cb, data, beh) ==
    IF cb = "_on_read_first_line" THEN _on_read_first_line(s, data, beh)
    ELSE IF cb = "_on_read_bulk_line" THEN _on_read_bulk_line(s, data, beh)
    ELSE IF cb = "_on_read_multibulk_linehead"
    THEN _on_read_multibulk_linehead(s, data, beh)
    ELSE _on_read_multibulk_linebody(s, data, beh)

\* ------------------------------------------------------ server and transport

Line(s) == s \o CRLF

\* The reply frames the server sends.
SimpleFrame    == Line(<<"+", "O", "K">>)
ErrorFrame     == Line(<<"-", "E">>)
IntegerFrame   == Line(<<":", "4", "2">>)
NullBulkFrame  == Line(<<"$", "-", "1">>)
BulkFrame      == Line(<<"$", "1">>) \o Line(<<"a">>)
NullMultiFrame == Line(<<"*", "-", "1">>)
EmptyMultiFrame == Line(<<"*", "0">>)
MultiBulkFrame == Line(<<"*", "2">>) \o Line(<<"$", "1">>) \o Line(<<"a">>)
                  \o Line(<<"$", "1">>) \o Line(<<"b">>)
\* an integer element last, first
MultiBulkIntLast  == Line(<<"*", "2">>) \o Line(<<"$", "1">>) \o Line(<<"a">>)
                     \o Line(<<":", "7">>)
MultiBulkIntFirst == Line(<<"*", "2">>) \o Line(<<":", "7">>)
                     \o Line(<<"$", "1">>) \o Line(<<"a">>)
\* a null bulk element
MultiBulkNullElem == Line(<<"*", "1">>) \o Line(<<"$", "-", "1">>)
\* malformed: an unknown sigil, an integer that is none, a length that is none
UnknownSigilFrame == Line(<<"!", "x">>)
BadIntegerFrame   == Line(<<":", "x">>)
BadLengthFrame    == Line(<<"$", "x">>)

\* One frame of each shape of the wire format's table.
TableFrames ==
    { SimpleFrame, ErrorFrame, IntegerFrame, NullBulkFrame, BulkFrame,
      NullMultiFrame, MultiBulkFrame }

WellFormedFrames ==
    TableFrames \cup { EmptyMultiFrame, MultiBulkIntLast, MultiBulkIntFirst,
                       MultiBulkNullElem }

MalformedFrames == { UnknownSigilFrame, BadIntegerFrame, BadLengthFrame }

Frames == WellFormedFrames \cup MalformedFrames

\* Frames the server pushes without a command (a published message).
PushFrames == { IntegerFrame }

\* The first index k with buffer[k..k+1] = CRLF, or 0.
FindCRLF(buffer) ==
    LET at == {k \in 1..(Len(buffer) - 1) : buffer[k] = "CR" /\ buffer[k + 1] = "LF"}
    IN  IF at = {} THEN 0 ELSE CHOOSE k \in at : \A m \in at : k <= m

\* How many bytes of the buffer satisfy read request r, or 0 when it must wait.
Satisfied(r, buffer) ==
    IF r.kind = "until"
    THEN (IF FindCRLF(buffer) = 0 THEN 0 ELSE FindCRLF(buffer) + 1)
    ELSE (IF r.n >= 1 /\ Len(buffer) >= r.n THEN r.n ELSE 0)

\* ------------------------------------------------------------------ actions

Init ==
    /\ _callback_queue = <<>>
    /\ _callback = None
    /\ _result_queue = <<>>
    /\ _data = <<>>
    /\ _multibulk_number = 0
    /\ reading = <<>>
    /\ written = <<>>
    /\ read_buffer = <<>>
    /\ connected = FALSE
    /\ closed = FALSE
    /\ wire = <<>>
    /\ sent = <<>>
    /\ dispatched = <<>>
    /\ raised = "none"
    /\ call = NoCall
    /\ returned = NotReturned

\* The client's fields and the stream's requests and writes after a method ran.
Becomes(s) ==
    /\ _callback_queue' = s.callback_queue
    /\ _callback' = s.callback
    /\ _result_queue' = s.result_queue
    /\ _data' = s.data
    /\ _multibulk_number' = s.multibulk_number
    /\ reading' = s.reading
    /\ written' = s.written
    /\ dispatched' = s.dispatched
    /\ raised' = s.exc

\* The connect callback of __init__: the first read is requested.
Connect ==
    /\ ~connected /\ ~closed
    /\ connected' = TRUE
    /\ Becomes(_wait_result(Self))
    /\ UNCHANGED <<read_buffer, closed, wire, sent,
                   call, returned>>

\* A caller calls fetch(request, callback).
Fetch(request) ==
    /\ ~closed
    /\ Len(written) < MaxFetch
    /\ Becomes(fetch(Self, request, Len(written) + 1))
    /\ UNCHANGED <<read_buffer, connected, closed, wire, sent,
                   call, returned>>

\* The server answers the oldest command it has not answered.
ServerReply(frame) ==
    /\ connected /\ ~closed
    /\ wire = <<>>
    /\ Cardinality({k \in 1..Len(sent) : sent[k].solicited}) < Len(written)
    /\ wire' = frame
    /\ sent' = Append(sent, [frame |-> frame, solicited |-> TRUE])
    /\ raised' = "none"
    /\ UNCHANGED <<_callback_queue, _callback, _result_queue, _data, _multibulk_number,
                   reading, written, read_buffer, connected, closed, dispatched,
                   call, returned>>

\* The server sends a frame no command asked for.
ServerPush(frame) ==
    /\ connected /\ ~closed
    /\ wire = <<>>
    /\ Cardinality({k \in 1..Len(sent) : ~sent[k].solicited}) < MaxUnsolicited
    /\ wire' = frame
    /\ sent' = Append(sent, [frame |-> frame, solicited |-> FALSE])
    /\ raised' = "none"
    /\ UNCHANGED <<_callback_queue, _callback, _result_queue, _data, _multibulk_number,
                   reading, written, read_buffer, connected, closed, dispatched,
                   call, returned>>

\* The next k bytes on the wire reach the stream's buffer.
Arrive(k) ==
    /\ connected /\ ~closed
    /\ read_buffer' = read_buffer \o SubSeq(wire, 1, k)
    /\ wire' = SubSeq(wire, k + 1, Len(wire))
    /\ raised' = "none"
    /\ UNCHANGED <<_callback_queue, _callback, _result_queue, _data, _multibulk_number,
                   reading, written, connected, closed, sent, dispatched,
                   call, returned>>

\* The stream satisfies its oldest read request from the buffer and calls the
\* request's callback; the callback runs to its end.
Deliver(beh) ==
    /\ ~closed
    /\ reading # <<>>
    /\ Satisfied(Head(reading), read_buffer) > 0
    /\ beh = "fetch" => Len(written) < MaxFetch
    /\ LET r == Head(reading)
           k == Satisfied(r, read_buffer)
           s == [Self EXCEPT !.reading = Tail(@)]
       IN  /\ Becomes(handle(s, r.cb, SubSeq(read_buffer, 1, k), beh))
           /\ read_buffer' = SubSeq(read_buffer, k + 1, Len(read_buffer))
    /\ UNCHANGED <<connected, closed, wire, sent,
                   call, returned>>

\* close() that also drops the callbacks awaiting a reply and the bytes
\* reassembled so far.
Close_resets_session ==
    /\ ~closed
    /\ closed' = TRUE
    /\ raised' = "none"
    /\ _callback_queue' = <<>>
    /\ _data' = <<>>
    /\ UNCHANGED <<_callback, _result_queue, _multibulk_number,
                   reading, written, read_buffer, connected, wire, sent, dispatched,
                   call, returned>>

\* close(): stream.close()
Close ==
    /\ ~closed
    /\ closed' = TRUE
    /\ raised' = "none"
    /\ UNCHANGED <<_callback_queue, _callback, _result_queue, _data, _multibulk_number,
                   reading, written, read_buffer, connected, wire, sent, dispatched,
                   call, returned>>

Next ==
    \/ Connect
    \/ \E request \in Requests : Fetch(request)
    \/ \E frame \in Frames : ServerReply(frame)
    \/ \E frame \in PushFrames : ServerPush(frame)
    \/ \E k \in 1..Len(wire) : Arrive(k)
    \/ \E beh \in Behaviours : Deliver(beh)
    \/ Close

Spec == Init /\ [][Next]_vars

\* fetch calls issued before any reply arrives: fetch only while the server
\* has sent nothing, and callbacks that do not call fetch themselves.
FetchFirst(request) == sent = <<>> /\ Fetch(request)

NextPipelined ==
    \/ Connect
    \/ \E request \in Requests : FetchFirst(request)
    \/ \E frame \in Frames : ServerReply(frame)
    \/ \E k \in 1..Len(wire) : Arrive(k)
    \/ \E beh \in {"return", "raise"} : Deliver(beh)
    \/ Close

SpecPipelined == Init /\ [][NextPipelined]_vars

\* The session under one frame of each kind of course a reply can take
\* (dispatched at its first line, raising in decode, reassembled from two
\* reads, dispatched in two pieces, never dispatched) and a request that
\* encodes and one that does not.
CoreFrames ==
    { SimpleFrame, ErrorFrame, BulkFrame, MultiBulkIntFirst, UnknownSigilFrame }

CoreRequests == { PingRequest, [tuple |-> FALSE, fields |-> <<PyStr(<<"P">>)>>] }

NextSession ==
    \/ Connect
    \/ \E request \in CoreRequests : Fetch(request)
    \/ \E frame \in CoreFrames : ServerReply(frame)
    \/ \E frame \in PushFrames : ServerPush(frame)
    \/ \E k \in 1..Len(wire) : Arrive(k)
    \/ \E beh \in Behaviours : Deliver(beh)
    \/ Close

SpecSession == Init /\ [][NextSession]_vars

\* fetch under every request, with replies of three kinds.
FetchFrames == { SimpleFrame, ErrorFrame, BulkFrame }

NextFetch ==
    \/ Connect
    \/ \E request \in Requests : Fetch(request)
    \/ \E frame \in FetchFrames : ServerReply(frame)
    \/ \E k \in 1..Len(wire) : Arrive(k)
    \/ \E beh \in Behaviours : Deliver(beh)
    \/ Close

SpecFetch == Init /\ [][NextFetch]_vars

\* The session under one frame of each pattern of reads a reply can cause:
\* none after the first line, one body, headers and bodies in turn, a
\* dispatch at an element header, a first line no branch matches, and a
\* length that is no integer.
ReadFrames ==
    { SimpleFrame, BulkFrame, MultiBulkFrame, MultiBulkIntFirst,
      UnknownSigilFrame, BadLengthFrame }

NextReads ==
    \/ Connect
    \/ \E request \in CoreRequests : Fetch(request)
    \/ \E frame \in ReadFrames : ServerReply(frame)
    \/ \E k \in 1..Len(wire) : Arrive(k)
    \/ \E beh \in Behaviours : Deliver(beh)
    \/ Close

SpecReads == Init /\ [][NextReads]_vars

\* The session while the connection stays open and the server answers every
\* command with a well-formed reply that is no Error: the IOLoop runs the
\* connect callback, the server sends the reply it owes, the bytes sent
\* arrive, and the stream calls the handler of a read request it can
\* satisfy. The application may stop calling fetch at any time.
LiveFrames ==
    { SimpleFrame, BulkFrame, MultiBulkFrame, MultiBulkIntFirst, MultiBulkNullElem }

ServerReplies == \E frame \in LiveFrames : ServerReply(frame)
Arrives == \E k \in 1..Len(wire) : Arrive(k)
Delivers == \E beh \in Behaviours : Deliver(beh)

NextLive ==
    \/ Connect
    \/ Fetch(PingRequest)
    \/ ServerReplies
    \/ Arrives
    \/ Delivers

SpecLive ==
    /\ Init /\ [][NextLive]_vars
    /\ WF_vars(Connect)
    /\ WF_vars(ServerReplies)
    /\ WF_vars(Arrives)
    /\ WF_vars(Delivers)

\* -------------------------------------------------------------- codec calls

\* Byte strings used as command fields and as reply payloads: three words,
\* the empty string, one of twelve bytes (a two-digit length) and one that
\* holds a line terminator.
Texts ==
    { <<"S", "E", "T">>, <<"f", "o", "o">>, <<"b", "a", "r">>, <<>>,
      <<"h", "e", "l", "l", "o", " ", "w", "o", "r", "l", "d", "!">> }

Payloads ==
    { <<"f", "o", "o">>, <<"b", "a", "r">>, <<"h", "e", "l", "l", "o">>, <<>>,
      <<"a", "CR", "LF", "b">> }

\* The requests passed to encode: tuples of up to MaxFields fields, each a
\* str or an int.
CommandFields == {PyStr(t) : t \in Texts} \cup {PyInt(12)}

Commands ==
    { [tuple |-> TRUE, fields |-> f] :
        f \in UNION {[1..n -> CommandFields] : n \in 0..MaxFields} }

\* The frame of a reply that carries value v: an integer line, a bulk
\* string, or a multi-bulk of such elements.
RECURSIVE ReplyFrame(_)
ReplyFrame(v) ==
    IF v.t = "int" THEN Line(<<":">> \o FormatInt(v.i))
    ELSE IF v.t = "str" THEN Line(<<"$">> \o FormatInt(Len(v.s))) \o Line(v.s)
    ELSE LET part[k \in 0..Len(v.l)] ==
                 IF k = 0 THEN Line(<<"*">> \o FormatInt(Len(v.l)))
                 ELSE part[k - 1] \o ReplyFrame(v.l[k])
         IN  part[Len(v.l)]

ElementValues == {PyStr(p) : p \in Payloads} \cup {PyInt(42)}

ReplyValues ==
    {PyInt(i) : i \in {0, 42, -7, 1234}}
    \cup {PyStr(p) : p \in Payloads}
    \cup {PyList(l) : l \in UNION {[1..n -> ElementValues] : n \in 0..MaxElements}}

ProtocolError == RedisError(<<"Redis Reply TypeError">>)

\* The buffers passed to decode, each with the value the frame stands for:
\* value-carrying frames, status lines, the two null frames, an Error line,
\* and lines that start with no reply sigil.
DecodeCases ==
    {[frame |-> ReplyFrame(v), value |-> v] : v \in ReplyValues}
    \cup {[frame |-> Line(<<"+">> \o t), value |-> PyTrue] :
            t \in {<<"O", "K">>, <<"P", "O", "N", "G">>, <<>>}}
    \cup {[frame |-> f, value |-> PyNone] : f \in {NullBulkFrame, NullMultiFrame}}
    \cup {[frame |-> ErrorFrame, value |-> RedisError(<<"E">>)]}
    \cup {[frame |-> Line(<<c>> \o t), value |-> ProtocolError] :
            c \in {"!", "a", "0", " "}, t \in {<<>>, <<"x">>, <<"4", "2">>}}

CodecCalls ==
    {[fn |-> "encode", arg |-> r] : r \in Commands}
    \cup {[fn |-> "decode", arg |-> d.frame, value |-> d.value] : d \in DecodeCases}

\* One call of encode or decode on its own: no client is involved.
InitCodec ==
    /\ _callback_queue = <<>>
    /\ _callback = None
    /\ _result_queue = <<>>
    /\ _data = <<>>
    /\ _multibulk_number = 0
    /\ reading = <<>>
    /\ written = <<>>
    /\ read_buffer = <<>>
    /\ connected = FALSE
    /\ closed = FALSE
    /\ wire = <<>>
    /\ sent = <<>>
    /\ dispatched = <<>>
    /\ raised = "none"
    /\ call \in CodecCalls
    /\ returned = NotReturned

EncodeCall ==
    /\ call.fn = "encode" /\ returned = NotReturned
    /\ returned' = encode(call.arg)
    /\ UNCHANGED <<_callback_queue, _callback, _result_queue, _data, _multibulk_number,
                   reading, written, read_buffer, connected, closed, wire, sent,
                   dispatched, raised, call>>

DecodeCall ==
    /\ call.fn = "decode" /\ returned = NotReturned
    /\ returned' = decode(call.arg)
    /\ UNCHANGED <<_callback_queue, _callback, _result_queue, _data, _multibulk_number,
                   reading, written, read_buffer, connected, closed, wire, sent,
                   dispatched, raised, call>>

NextCodec == EncodeCall \/ DecodeCall

SpecCodec == InitCodec /\ [][NextCodec]_vars

\* ------------------------------------------------------------- the claims

\* The read request _wait_result issues.
ReadFirstLine == [kind |-> "until", n |-> 0, cb |-> "_on_read_first_line"]

\* Every byte the server sent has arrived and the stream can deliver nothing.
Drained ==
    /\ connected /\ ~closed
    /\ wire = <<>>
    /\ reading = <<>> \/ Satisfied(Head(reading), read_buffer) = 0

\* The server has answered every command written, and nothing else.
AllAnswered ==
    /\ Len(sent) = Len(written)
    /\ \A k \in 1..Len(sent) : sent[k].solicited

\* Callback c was invoked with the decoded value of the reply to command c.
GotOwnReply(c) ==
    \E k \in 1..Len(dispatched) :
        /\ dispatched[k].invoked
        /\ dispatched[k].cb = c
        /\ dispatched[k].result = decode(sent[c].frame)

\* C1: FIFO ordering. With the fetch calls issued before any reply arrives
\* and one well-formed reply per command sent in order (no Error reply, no
\* null element), callback k is invoked only with the decoded value of reply
\* k, and has been invoked with it once every byte is delivered, whatever
\* the fragmentation.
C1_FifoOrdering ==
    (\A k \in 1..Len(sent) :
        /\ sent[k].solicited
        /\ sent[k].frame \in WellFormedFrames \ {ErrorFrame, MultiBulkNullElem})
    =>
    /\ \A k \in 1..Len(dispatched) :
          dispatched[k].invoked =>
              /\ dispatched[k].cb \in 1..Len(sent)
              /\ dispatched[k].result = decode(sent[dispatched[k].cb].frame)
    /\ (Drained /\ AllAnswered) => \A c \in 1..Len(written) : GotOwnReply(c)

\* C2: streaming equivalence. The outcome of the first dispatch equals the
\* whole-buffer decode of the first frame sent, for every well-formed frame
\* and every way its bytes arrive.
C2_StreamingEquivalence ==
    (sent # <<>> /\ sent[1].frame \in WellFormedFrames /\ dispatched # <<>>)
    => dispatched[1].result = decode(sent[1].frame)

\* The equivalence restricted to the seven frames of the wire format's table.
C2_TableFramesEquivalence ==
    (sent # <<>> /\ sent[1].frame \in TableFrames /\ dispatched # <<>>)
    => dispatched[1].result = decode(sent[1].frame)

\* C3: resilience. When exactly one reply of a pipelined sequence is
\* malformed or an error and all bytes are delivered, every other command's
\* callback has been invoked with the decoded value of its own reply.
C3_Resilience ==
    LET bad == {k \in 1..Len(sent) : sent[k].frame \in MalformedFrames \cup {ErrorFrame}}
        plain == {k \in 1..Len(sent) : sent[k].frame \in TableFrames \ {ErrorFrame}}
    IN  (/\ Drained /\ AllAnswered
         /\ Cardinality(bad) = 1
         /\ bad \cup plain = 1..Len(sent))
        => \A c \in plain : GotOwnReply(c)

\* C4: an Error reply is handed to the pending callback: every dispatch that
\* takes a callback from the queue for an Error frame invokes it, and no
\* RedisError leaves the handler.
C4_ErrorDelivered ==
    /\ \A k \in 1..Len(dispatched) :
          (dispatched[k].popped /\ dispatched[k].result.t = "RedisError")
              => dispatched[k].invoked
    /\ raised # "RedisError"

\* C5: every step that dispatches a completed reply, whether decode
\* succeeded, decode raised or the callback raised, leaves exactly one read
\* request outstanding: read until CRLF, for _on_read_first_line.
C5_RearmsAfterDispatch ==
    [][Len(dispatched') = Len(dispatched) + 1 => reading' = <<ReadFirstLine>>]_vars

\* A dispatch whose callback raised, after one whose decode raised, re-armed.
C5_Witness ==
    /\ raised = "CallbackError"
    /\ \E k \in 1..Len(dispatched) : dispatched[k].result.t = "RedisError"
    /\ reading = <<ReadFirstLine>>

\* C6: a framing fault is reported to the pending callback and the session
\* re-arms: once the bytes of a malformed reply to the only command have been
\* consumed, its callback has been invoked and a first-line read is outstanding.
C6_FramingFaultReported ==
    (/\ Len(sent) = 1 /\ sent[1].solicited /\ sent[1].frame \in MalformedFrames
     /\ connected /\ ~closed /\ wire = <<>> /\ read_buffer = <<>>)
    => /\ Len(dispatched) = 1
       /\ dispatched[1].popped /\ dispatched[1].invoked
       /\ reading = <<ReadFirstLine>>

\* C7: a fetch whose command cannot be encoded raises to its caller and
\* leaves the session as it was: nothing written, nothing queued, _callback
\* not updated.
C7_FailedFetchChangesNothing ==
    [][\A r \in Requests :
          (IsException(encode(r)) /\ Fetch(r)) =>
              /\ raised' = "AssertionError"
              /\ UNCHANGED <<_callback_queue, _callback, _result_queue, _data,
                             _multibulk_number, reading, written, dispatched>>]_vars

\* A fetch failed while a callback was pending.
C7_Witness == raised = "AssertionError" /\ _callback_queue # <<>> /\ written # <<>>

\* C8 as stated: fetch raises for a command with no field and for a request
\* that is no tuple.
C8_EmptyOrNonSequenceRejected ==
    [][\A r \in Requests :
          ((~r.tuple \/ r.fields = <<>>) /\ Fetch(r)) => raised' = "AssertionError"]_vars

\* C8 amended: fetch raises exactly when the request is no tuple; the empty
\* tuple is encoded and written as the frame *0 CRLF.
C8_OnlyNonTupleRejected ==
    [][\A r \in Requests :
          Fetch(r) =>
              /\ (raised' = "AssertionError") <=> ~r.tuple
              /\ (r.tuple /\ r.fields = <<>>)
                    => written' = Append(written, Line(<<"*", "0">>))]_vars

\* The frame of the empty command was written.
C8_Witness == \E k \in 1..Len(written) : written[k] = Line(<<"*", "0">>)

\* C9 as stated: the callback registered by one fetch call is invoked for
\* at most one reply.
C9_ExactlyOnce ==
    \A j, k \in 1..Len(dispatched) :
        (j # k /\ dispatched[j].invoked /\ dispatched[k].invoked)
            => dispatched[j].cb # dispatched[k].cb

\* No callback is taken from the queue twice.
C9_PoppedOnce ==
    \A j, k \in 1..Len(dispatched) :
        (j # k /\ dispatched[j].popped /\ dispatched[k].popped)
            => dispatched[j].cb # dispatched[k].cb

\* A dispatch takes the head of a non-empty queue and nothing else (a fetch
\* made by the callback may add a tail entry); with the queue empty it takes
\* nothing and uses _callback.
C9_DispatchStep ==
    Len(dispatched') = Len(dispatched) + 1 =>
        LET e == dispatched'[Len(dispatched')]
            added == IF Len(written') > Len(written) THEN <<Len(written')>> ELSE <<>>
        IN  IF _callback_queue # <<>>
            THEN /\ e.popped /\ e.cb = Head(_callback_queue)
                 /\ _callback_queue' = Tail(_callback_queue) \o added
            ELSE /\ ~e.popped /\ e.cb = _callback
                 /\ _callback_queue' = added

\* C9 amended: each dispatch removes at most one entry, the head, exactly
\* when the queue is not empty, and selects it; with the queue empty it
\* selects _callback instead; no callback is taken from the queue twice.
C9_HeadPoppedOrLastCallback == []C9_PoppedOnce /\ [][C9_DispatchStep]_vars

\* One callback served from the queue and then again through _callback.
C9_Witness ==
    \E j, k \in 1..Len(dispatched) :
        /\ j < k
        /\ dispatched[j].popped /\ dispatched[j].invoked
        /\ ~dispatched[k].popped /\ dispatched[k].invoked
        /\ dispatched[j].cb = dispatched[k].cb

\* How many dispatches took a callback from the queue.
Popped == Cardinality({k \in 1..Len(dispatched) : dispatched[k].popped})

\* C10: the queue, head to tail, is the callbacks of the written commands
\* that no dispatch has taken yet, in the order the commands were written
\* (callback k belongs to the k-th write).
C10_QueueMirrorsWrites ==
    /\ Len(_callback_queue) = Len(written) - Popped
    /\ \A i \in 1..Len(_callback_queue) : _callback_queue[i] = Popped + i

\* Two commands written, the first one's reply dispatched, the second pending.
C10_Witness == Len(written) = 2 /\ Popped = 1 /\ _callback_queue = <<2>>

\* C11: close() at any point, also in the middle of reassembling a reply,
\* only closes the stream: the callback queue, _callback, the result queue,
\* _data and _multibulk_number are unchanged, no callback is dispatched, and
\* nothing is written or requested from the stream.
C11_CloseOnlyReleasesTransport ==
    [][(~closed /\ closed') =>
          UNCHANGED <<_callback_queue, _callback, _result_queue, _data,
                      _multibulk_number, dispatched, written, reading>>]_vars

\* Closed with a callback pending, inside a multi-bulk reply.
C11_Witness ==
    /\ closed
    /\ _callback_queue # <<>>
    /\ _data # <<>> /\ _multibulk_number > 0
    /\ reading # <<>> /\ reading[1].cb = "_on_read_multibulk_linehead"

\* The text of a field: the bytes of a str, the decimal digits of an int.
C12_Text(x) == IF x.t = "int" THEN FormatInt(x.i) ELSE x.s

\* The frame of a command: the count line, then for each field in order its
\* length line and its text line.
C12_Frame(fields) ==
    LET n == Len(fields)
        upto[k \in 0..n] ==
            IF k = 0 THEN <<"*">> \o FormatInt(n) \o <<"CR", "LF">>
            ELSE upto[k - 1]
                 \o <<"$">> \o FormatInt(Len(C12_Text(fields[k]))) \o <<"CR", "LF">>
                 \o C12_Text(fields[k]) \o <<"CR", "LF">>
    IN  upto[n]

C12_Example ==
    [tuple |-> TRUE,
     fields |-> <<PyStr(<<"S", "E", "T">>), PyStr(<<"f", "o", "o">>),
                  PyStr(<<"b", "a", "r">>)>>]

C12_ExampleBytes ==
    <<"*", "3", "CR", "LF",
      "$", "3", "CR", "LF", "S", "E", "T", "CR", "LF",
      "$", "3", "CR", "LF", "f", "o", "o", "CR", "LF",
      "$", "3", "CR", "LF", "b", "a", "r", "CR", "LF">>

\* C12: encode of a command with n >= 1 fields returns '*n CRLF' followed,
\* for each field in order, by '$<length of its text> CRLF <text> CRLF', and
\* nothing else; encode(('SET','foo','bar')) is the thirty-one bytes of
\* C12_ExampleBytes.
C12_EncodeFormat ==
    (call.fn = "encode" /\ returned # NotReturned /\ Len(call.arg.fields) >= 1)
    => /\ returned = PyStr(C12_Frame(call.arg.fields))
       /\ call.arg = C12_Example => returned.s = C12_ExampleBytes

\* encode(('SET','foo','bar')) has returned.
C12_Witness ==
    /\ call.fn = "encode" /\ call.arg = C12_Example
    /\ returned = PyStr(C12_ExampleBytes)

C13_Example ==
    <<"*", "4", "CR", "LF",
      "$", "3", "CR", "LF", "f", "o", "o", "CR", "LF",
      "$", "3", "CR", "LF", "b", "a", "r", "CR", "LF",
      "$", "5", "CR", "LF", "h", "e", "l", "l", "o", "CR", "LF",
      ":", "4", "2", "CR", "LF">>

C13_ExampleValue ==
    PyList(<<PyStr(<<"f", "o", "o">>), PyStr(<<"b", "a", "r">>),
             PyStr(<<"h", "e", "l", "l", "o">>), PyInt(42)>>)

\* C13: decode of one complete frame goes by its first byte: '+' returns
\* True; ':' the integer of the line; '$-1' and '*-1' None; '$n' exactly the
\* n payload bytes (also when they hold a CRLF); '*n' the list of its n
\* elements in order, bulk elements as their payload and ':' lines as
\* integers, so that the example frame decodes to ['foo','bar','hello',42];
\* a frame with any other first byte raises the protocol error.
C13_DecodeByFirstByte ==
    (call.fn = "decode" /\ returned # NotReturned)
    => LET data == call.arg
           c == data[1]
           null == SubSeq(data, 2, 3) = <<"-", "1">>
       IN  /\ c = "+" => returned = PyTrue
           /\ (c \in {"$", "*"} /\ null) => returned = PyNone
           /\ (c = ":" \/ (c \in {"$", "*"} /\ ~null))
                 => /\ data = ReplyFrame(call.value)
                    /\ returned = call.value
                    /\ returned.t = (IF c = ":" THEN "int" ELSE IF c = "$" THEN "str" ELSE "list")
           /\ c \notin {"+", "-", ":", "$", "*"} => returned = ProtocolError
           /\ data = C13_Example => returned = C13_ExampleValue

\* decode of the example frame has returned its four elements.
C13_Witness ==
    /\ call.fn = "decode" /\ call.arg = C13_Example
    /\ returned = C13_ExampleValue

\* decode of a line with no reply sigil has raised.
C13_WitnessUnknown ==
    /\ call.fn = "decode" /\ call.arg[1] = "!"
    /\ returned = ProtocolError

\* The first bytes of the five kinds of reply.
Sigils == {"+", "-", ":", "$", "*"}

\* C14: when the line delivered to _on_read_first_line starts with none of
\* '+', '-', ':', '$', '*', the handler dispatches nothing, takes nothing
\* from the callback queue and requests no read: the stream is left with no
\* read request outstanding.
C14_UnknownSigilIsFatal ==
    [][\A beh \in Behaviours :
          (/\ reading # <<>> /\ read_buffer # <<>>
           /\ Head(reading).cb = "_on_read_first_line"
           /\ read_buffer[1] \notin Sigils
           /\ Deliver(beh))
          => /\ dispatched' = dispatched
             /\ _callback_queue' = _callback_queue
             /\ written' = written
             /\ reading' = <<>>]_vars

\* Such a line was delivered while a callback was pending.
C14_Witness ==
    /\ connected /\ ~closed
    /\ _data # <<>> /\ _data[1] \notin Sigils
    /\ reading = <<>>
    /\ _callback_queue # <<>> /\ dispatched = <<>>

\* The read request for the next element header of a multi-bulk reply.
ReadLinehead == [kind |-> "until", n |-> 0, cb |-> "_on_read_multibulk_linehead"]

\* C15: an element header that does not start with '$' counts as one
\* complete element: _multibulk_number goes down by one, and the reply is
\* dispatched only when it has reached zero; otherwise nothing is dispatched
\* and the next element header is requested.
C15_ScalarElementCounted ==
    [][\A beh \in Behaviours :
          (/\ reading # <<>> /\ read_buffer # <<>>
           /\ Head(reading).cb = "_on_read_multibulk_linehead"
           /\ read_buffer[1] # "$"
           /\ Deliver(beh))
          => /\ _multibulk_number' = _multibulk_number - 1
             /\ IF _multibulk_number' = 0
                THEN Len(dispatched') = Len(dispatched) + 1
                ELSE dispatched' = dispatched /\ reading' = <<ReadLinehead>>]_vars

\* How many of the bytes the server sent have been delivered to a handler.
Consumed ==
    LET total[k \in 0..Len(sent)] ==
            IF k = 0 THEN 0 ELSE total[k - 1] + Len(sent[k].frame)
    IN  total[Len(sent)] - Len(wire) - Len(read_buffer)

\* The count n that the first line of a multi-bulk frame declares.
C16_Count(frame) == int(SubSeq(frame, 2, FindCRLF(frame) - 1)).i

\* While the first reply is one of frames and is not yet dispatched.
C16_Reassembling(frames) ==
    sent # <<>> /\ sent[1].frame \in frames /\ dispatched = <<>>

\* The first reply is dispatched exactly when its last byte has been
\* delivered: not before, and not after a byte of what follows it.
C16_DispatchedAtLastByte(frames) ==
    (sent # <<>> /\ sent[1].frame \in frames)
    => (dispatched # <<>> <=> Consumed >= Len(sent[1].frame))

\* The reads alternate between element header and element body, the count
\* goes down by one per body and the body that brings it to zero dispatches
\* the frame.
C16_Alternates(frames) ==
    \A beh \in Behaviours :
        (C16_Reassembling(frames) /\ Deliver(beh)) =>
            LET cb == Head(reading).cb
            IN  /\ cb = "_on_read_first_line"
                    => /\ _multibulk_number' = C16_Count(sent[1].frame)
                       /\ dispatched' = dispatched
                       /\ reading' = <<ReadLinehead>>
                /\ cb = "_on_read_multibulk_linehead"
                    => /\ _multibulk_number' = _multibulk_number
                       /\ dispatched' = dispatched
                       /\ Len(reading') = 1
                       /\ reading'[1].kind = "bytes"
                       /\ reading'[1].cb = "_on_read_multibulk_linebody"
                /\ cb = "_on_read_multibulk_linebody"
                    => /\ _multibulk_number' = _multibulk_number - 1
                       /\ IF _multibulk_number' = 0
                          THEN /\ Len(dispatched') = 1
                               /\ dispatched'[1].result = decode(sent[1].frame)
                          ELSE dispatched' = dispatched /\ reading' = <<ReadLinehead>>

\* Multi-bulk frames with a count n >= 1 whose elements are all '$'-framed.
C16_AllBulkFrames == { MultiBulkFrame, MultiBulkNullElem }

\* C16: for a multi-bulk frame with count n >= 1 and only '$'-framed
\* elements the session alternates header and body reads, decrements the
\* count once per body and dispatches the reply exactly when the n-th body
\* has been delivered: never earlier, never after reading bytes of the
\* reply that follows.
C16_AllBulkReassembly ==
    /\ [] C16_DispatchedAtLastByte(C16_AllBulkFrames)
    /\ [][C16_Alternates(C16_AllBulkFrames)]_vars

\* The same for frames whose elements all declare a length of zero or more.
C16_DeclaredLengthReassembly ==
    /\ [] C16_DispatchedAtLastByte({MultiBulkFrame})
    /\ [][C16_Alternates({MultiBulkFrame})]_vars

\* A step in which the stream delivered bytes to a handler, and one in which
\* fetch was called from outside a handler.
C17_Delivery == Len(read_buffer') < Len(read_buffer)
C17_Fetch == ~C17_Delivery /\ (written' # written \/ raised' = "AssertionError")

\* C17 as stated: at most one read request is outstanding in every state;
\* every delivery leaves exactly one (the handler's follow-up read, or the
\* read until CRLF of a completed reply); fetch, called by the application
\* or by a callback, requests none.
C17_ExactlyOneReadPerDelivery ==
    /\ [](Len(reading) <= 1)
    /\ [][/\ C17_Delivery => Len(reading') = 1
          /\ C17_Fetch => reading' = reading]_vars

\* C17 amended: at most one read request is outstanding in every state; a
\* delivery leaves exactly one (after a dispatch the read until CRLF for
\* _on_read_first_line), except that it leaves none when the first line
\* starts with no sigil or when a length or count is no integer (int raises
\* ValueError before any read is requested); fetch requests none.
C17_AtMostOneRead ==
    /\ [](Len(reading) <= 1)
    /\ [][/\ C17_Delivery =>
               IF \/ (Head(reading).cb = "_on_read_first_line"
                        /\ read_buffer[1] \notin Sigils)
                  \/ (raised' = "ValueError" /\ dispatched' = dispatched)
               THEN reading' = <<>>
               ELSE /\ Len(reading') = 1
                    /\ Len(dispatched') > Len(dispatched) => reading' = <<ReadFirstLine>>
          /\ C17_Fetch => reading' = reading]_vars

\* A callback has called fetch and one read is outstanding, and earlier
\* reads were a body and an element header.
C17_Witness ==
    /\ Len(dispatched) >= 1 /\ Len(written) = 2 /\ Len(sent) = 1
    /\ reading = <<ReadFirstLine>>
    /\ sent[1].frame = MultiBulkFrame

\* The header line that _data ends with: the bytes after the last CRLF
\* before the final one, without the sigil and the final CRLF.
C18_DeclaredLength ==
    LET starts == {k \in 1..(Len(_data) - 2) :
                      k = 1 \/ (k >= 3 /\ _data[k - 2] = "CR" /\ _data[k - 1] = "LF")}
        start == CHOOSE k \in starts : \A j \in starts : j <= k
    IN  int(SubSeq(_data, start + 1, Len(_data) - 2)).i

\* C18: every read_bytes request outstanding asks for the declared length
\* of the header just read plus two, and the declared length is zero or
\* more, so that at least the two bytes of a line terminator are read; also
\* for the header of a null bulk element ('$-1') of a multi-bulk frame.
C18_BodyReadIsLengthPlusTwo ==
    \A i \in 1..Len(reading) :
        reading[i].kind = "bytes" =>
            /\ reading[i].n = C18_DeclaredLength + 2
            /\ C18_DeclaredLength >= 0
            /\ reading[i].n >= 2

\* Callback c has been invoked.
C19_Invoked(c) ==
    \E k \in 1..Len(dispatched) : dispatched[k].invoked /\ dispatched[k].cb = c

\* C19, as what it requires of a run that has come to rest. With the
\* connection open, one well-formed reply that is no Error sent for every
\* command written, every byte arrived and no read request left that the
\* stream can satisfy, only a further fetch can make anything happen; so if
\* every callback is eventually invoked and the queue eventually empty, they
\* are in such a state: every callback has been invoked and the callback
\* queue is empty.
C19_EveryCallbackInvoked ==
    (/\ Drained /\ AllAnswered
     /\ \A k \in 1..Len(sent) : sent[k].frame \in WellFormedFrames \ {ErrorFrame})
    => /\ \A c \in 1..Len(written) : C19_Invoked(c)
       /\ _callback_queue = <<>>

\* The same when no reply holds a null bulk element.
C19_WithoutNullElement ==
    (/\ Drained /\ AllAnswered
     /\ \A k \in 1..Len(sent) :
           sent[k].frame \in WellFormedFrames \ {ErrorFrame, MultiBulkNullElem})
    => /\ \A c \in 1..Len(written) : C19_Invoked(c)
       /\ _callback_queue = <<>>

\* C20: the result queue is empty in every reachable state, whatever fetch
\* calls and replies there are (also more replies than callbacks), and the
\* bytes decoded at a dispatch are the bytes of the reply just reassembled
\* in _data: no reply is kept in the queue or taken from it.
C20_ResultQueueUnused ==
    /\ [](_result_queue = <<>>)
    /\ [][Len(dispatched') = Len(dispatched) + 1
             => dispatched'[Len(dispatched')].result = decode(_data')]_vars

\* More replies were dispatched than commands written.
C20_Witness ==
    /\ Len(written) >= 1
    /\ Len(dispatched) > Len(written)
    /\ \E k \in 1..Len(sent) : ~sent[k].solicited
    /\ _result_queue = <<>>

====
